---- MODULE Spec2Model ----
(***************************************************************************)
(* A model of kids_english_helper/streamlit_app.py: the catalog search     *)
(* (azure_search), the enrichment call (aoai_chat, build_rag_prompt), the  *)
(* rule-based weekly planner (rule_based_plan) and the two button handlers *)
(* of the Search and Plan tabs.                                            *)
(*                                                                         *)
(* Text is a sequence of characters.  A character is a one-letter string;  *)
(* a code point that is not printable ASCII is written "U+XXXX" and is one *)
(* character.  Python values are tagged records.                           *)
(***************************************************************************)
EXTENDS Integers, Sequences, FiniteSets, TLC

(***************************************************************************)
(* Python values                                                           *)
(***************************************************************************)
PyNone == [t |-> "none"]
PyBool(b) == [t |-> "bool", v |-> b]
PyInt(n) == [t |-> "int", v |-> n]
PyStr(s) == [t |-> "str", v |-> s]
\* a float is kept as the text repr() writes for it
PyFloat(s) == [t |-> "float", v |-> s]
PyList(xs) == [t |-> "list", v |-> xs]
\* a dict is its items in insertion order, each <<key, value>>, the key a text
PyDict(ps) == [t |-> "dict", v |-> ps]

\* bool(x)
Truthy(x) ==
    CASE x.t = "none" -> FALSE
      [] x.t = "bool" -> x.v
      [] x.t = "int" -> x.v # 0
      [] x.t = "float" -> x.v \notin {<<"0", ".", "0">>, <<"-", "0", ".", "0">>}
      [] x.t \in {"str", "list", "dict"} -> Len(x.v) > 0

\* a or b
PyOr(a, b) == IF Truthy(a) THEN a ELSE b

DictHas(d, k) == \E i \in 1..Len(d.v) : d.v[i][1] = k

\* d.get(k, default)
DictGet(d, k, default) ==
    IF DictHas(d, k)
    THEN d.v[CHOOSE i \in 1..Len(d.v) : d.v[i][1] = k][2]
    ELSE default

\* d[k] = val on the item list ps: a present key keeps its place
DictSet(ps, k, val) ==
    IF \E i \in 1..Len(ps) : ps[i][1] = k
    THEN [i \in 1..Len(ps) |-> IF ps[i][1] = k THEN <<k, val>> ELSE ps[i]]
    ELSE Append(ps, <<k, val>>)

\* s[:n] of a text
Prefix(s, n) == SubSeq(s, 1, IF Len(s) < n THEN Len(s) ELSE n)

(***************************************************************************)
(* json.dumps(x, ensure_ascii=False[, indent=2])                           *)
(***************************************************************************)
QUOTE == "\""
BSL == "\\"
Digits == <<"0", "1", "2", "3", "4", "5", "6", "7", "8", "9">>
DigitSet == {Digits[i] : i \in 1..Len(Digits)}
DigitVal(c) == (CHOOSE i \in 1..Len(Digits) : Digits[i] = c) - 1

\* the code points below 0x20 of the model's alphabet
ControlChars == {"\n", "\r", "\t", "U+0008", "U+000C", "U+0001"}

\* ESCAPE_DCT of json.encoder: everything else is written as it is
EscChar(c) ==
    CASE c = QUOTE -> <<BSL, QUOTE>>
      [] c = BSL -> <<BSL, BSL>>
      [] c = "\n" -> <<BSL, "n">>
      [] c = "\r" -> <<BSL, "r">>
      [] c = "\t" -> <<BSL, "t">>
      [] c = "U+0008" -> <<BSL, "b">>
      [] c = "U+000C" -> <<BSL, "f">>
      [] c = "U+0001" -> <<BSL, "u", "0", "0", "0", "1">>
      [] OTHER -> <<c>>

RECURSIVE EscRange(_, _, _)
EscRange(s, lo, hi) ==
    IF lo > hi THEN <<>>
    ELSE IF lo = hi THEN EscChar(s[lo])
    ELSE EscRange(s, lo, (lo + hi) \div 2) \o EscRange(s, (lo + hi) \div 2 + 1, hi)

py_encode_basestring(s) == <<QUOTE>> \o EscRange(s, 1, Len(s)) \o <<QUOTE>>

RECURSIVE NatToStr(_)
NatToStr(n) ==
    IF n < 10 THEN <<Digits[n + 1]>>
    ELSE NatToStr(n \div 10) \o <<Digits[(n % 10) + 1]>>

\* str(n), also the decimal form json.dumps writes
IntToStr(n) == IF n < 0 THEN <<"-">> \o NatToStr(-n) ELSE NatToStr(n)

\* indent < 0 stands for indent=None
NewlineIndent(indent, level) ==
    IF indent < 0 THEN <<>> ELSE <<"\n">> \o [i \in 1..(indent * level) |-> " "]

ItemSep(indent, level) ==
    IF indent < 0 THEN <<",", " ">> ELSE <<",">> \o NewlineIndent(indent, level)

RECURSIVE Dumps(_, _, _)
RECURSIVE DumpItems(_, _, _, _)
RECURSIVE DumpMembers(_, _, _, _)
Dumps(x, indent, level) ==
    CASE x.t = "none" -> <<"n", "u", "l", "l">>
      [] x.t = "bool" -> IF x.v THEN <<"t", "r", "u", "e">> ELSE <<"f", "a", "l", "s", "e">>
      [] x.t = "int" -> IntToStr(x.v)
      [] x.t = "float" -> x.v
      [] x.t = "str" -> py_encode_basestring(x.v)
      [] x.t = "list" ->
            IF Len(x.v) = 0 THEN <<"[", "]">>
            ELSE <<"[">> \o NewlineIndent(indent, level + 1)
                 \o DumpItems(x.v, 1, indent, level + 1)
                 \o NewlineIndent(indent, level) \o <<"]">>
      [] x.t = "dict" ->
            IF Len(x.v) = 0 THEN <<"{", "}">>
            ELSE <<"{">> \o NewlineIndent(indent, level + 1)
                 \o DumpMembers(x.v, 1, indent, level + 1)
                 \o NewlineIndent(indent, level) \o <<"}">>

DumpItems(xs, i, indent, level) ==
    Dumps(xs[i], indent, level)
    \o (IF i = Len(xs) THEN <<>>
        ELSE ItemSep(indent, level) \o DumpItems(xs, i + 1, indent, level))

DumpMembers(ps, i, indent, level) ==
    py_encode_basestring(ps[i][1]) \o <<":", " ">> \o Dumps(ps[i][2], indent, level)
    \o (IF i = Len(ps) THEN <<>>
        ELSE ItemSep(indent, level) \o DumpMembers(ps, i + 1, indent, level))

json_dumps(x, indent) == Dumps(x, indent, 0)

(***************************************************************************)
(* json.loads(text): objects, arrays, strings, integers, true, false and   *)
(* null.  The texts the model draws hold no fraction, exponent, NaN or     *)
(* Infinity, and no \u escape other than those of UnicodeEscapes.          *)
(***************************************************************************)
Whitespace == {" ", "\t", "\n", "\r"}
StrSpecial == {QUOTE, BSL} \cup ControlChars

ParseFail == [ok |-> FALSE, val |-> PyNone, pos |-> 0]
ParseOk(val, pos) == [ok |-> TRUE, val |-> val, pos |-> pos]

At(text, i) == IF i >= 1 /\ i <= Len(text) THEN text[i] ELSE "EOF"

\* the least index of lo..hi holding a character of S, or 0
RECURSIVE FirstIn(_, _, _, _)
RECURSIVE FirstInRight(_, _, _, _, _)
FirstIn(text, lo, hi, S) ==
    IF lo > hi THEN 0
    ELSE IF lo = hi THEN (IF text[lo] \in S THEN lo ELSE 0)
    ELSE FirstInRight(FirstIn(text, lo, (lo + hi) \div 2, S),
                      text, (lo + hi) \div 2 + 1, hi, S)
FirstInRight(left, text, lo, hi, S) == IF left # 0 THEN left ELSE FirstIn(text, lo, hi, S)

RECURSIVE SkipWs(_, _)
SkipWs(text, i) == IF At(text, i) \in Whitespace THEN SkipWs(text, i + 1) ELSE i

\* BACKSLASH of json.decoder
Unescape(e) ==
    CASE e = QUOTE -> QUOTE
      [] e = BSL -> BSL
      [] e = "/" -> "/"
      [] e = "b" -> "U+0008"
      [] e = "f" -> "U+000C"
      [] e = "n" -> "\n"
      [] e = "r" -> "\r"
      [] e = "t" -> "\t"
SimpleEscapes == {QUOTE, BSL, "/", "b", "f", "n", "r", "t"}
UnicodeEscapes == {<<"0", "0", "0", "1">>}
UnicodeChar(h) == CASE h = <<"0", "0", "0", "1">> -> "U+0001"

\* py_scanstring from position i, just after the opening quote or an escape (strict
\* mode); acc is the text read so far and p the next quote, backslash or control
\* character
RECURSIVE ScanStr(_, _, _)
RECURSIVE ScanStrAt(_, _, _, _)
ScanStr(text, i, acc) == ScanStrAt(text, i, acc, FirstIn(text, i, Len(text), StrSpecial))
ScanStrAt(text, i, acc, p) ==
    IF p = 0 THEN ParseFail
    ELSE IF text[p] = QUOTE THEN ParseOk(PyStr(acc \o SubSeq(text, i, p - 1)), p + 1)
    ELSE IF text[p] # BSL THEN ParseFail
    ELSE IF At(text, p + 1) \in SimpleEscapes
         THEN ScanStr(text, p + 2, acc \o SubSeq(text, i, p - 1) \o <<Unescape(text[p + 1])>>)
    ELSE IF At(text, p + 1) = "u" /\ p + 5 <= Len(text)
            /\ SubSeq(text, p + 2, p + 5) \in UnicodeEscapes
         THEN ScanStr(text, p + 6,
                      acc \o SubSeq(text, i, p - 1)
                          \o <<UnicodeChar(SubSeq(text, p + 2, p + 5))>>)
    ELSE ParseFail

RECURSIVE ScanDigits(_, _, _)
ScanDigits(text, i, n) ==
    IF At(text, i) \in DigitSet
    THEN ScanDigits(text, i + 1, 10 * n + DigitVal(text[i]))
    ELSE ParseOk(PyInt(n), i)

\* NUMBER_RE without fraction and exponent: -?(0|[1-9]\d*)
ScanNat(text, i) ==
    IF At(text, i) = "0" THEN ParseOk(PyInt(0), i + 1)
    ELSE IF At(text, i) \in DigitSet THEN ScanDigits(text, i, 0)
    ELSE ParseFail

Negated(r) == IF r.ok THEN ParseOk(PyInt(-r.val.v), r.pos) ELSE ParseFail

ScanNumber(text, i) ==
    IF At(text, i) = "-" THEN Negated(ScanNat(text, i + 1)) ELSE ScanNat(text, i)

Literal(text, i, word, val) ==
    IF i + Len(word) - 1 <= Len(text) /\ SubSeq(text, i, i + Len(word) - 1) = word
    THEN ParseOk(val, i + Len(word))
    ELSE ParseFail

\* scan_once, JSONObject and JSONArray of json.scanner / json.decoder
RECURSIVE ParseValue(_, _)
RECURSIVE ParseMembers(_, _, _)
RECURSIVE ParseItems(_, _, _)

\* after "{" and white space, at j
ParseObjectAt(text, j) ==
    IF At(text, j) = "}" THEN ParseOk(PyDict(<<>>), j + 1)
    ELSE IF At(text, j) = QUOTE THEN ParseMembers(text, j, <<>>)
    ELSE ParseFail

\* after "[" and white space, at j
ParseArrayAt(text, j) ==
    IF At(text, j) = "]" THEN ParseOk(PyList(<<>>), j + 1) ELSE ParseItems(text, j, <<>>)

\* c is the character at i
ParseValueAt(text, i, c) ==
    CASE c = QUOTE -> ScanStr(text, i + 1, <<>>)
      [] c = "{" -> ParseObjectAt(text, SkipWs(text, i + 1))
      [] c = "[" -> ParseArrayAt(text, SkipWs(text, i + 1))
      [] c = "n" -> Literal(text, i, <<"n", "u", "l", "l">>, PyNone)
      [] c = "t" -> Literal(text, i, <<"t", "r", "u", "e">>, PyBool(TRUE))
      [] c = "f" -> Literal(text, i, <<"f", "a", "l", "s", "e">>, PyBool(FALSE))
      [] c = "-" \/ c \in DigitSet -> ScanNumber(text, i)
      [] OTHER -> ParseFail

ParseValue(text, i) == ParseValueAt(text, i, At(text, i))

\* after a member, at m: "}" ends the object, "," and a quote start the next member
MemberNext(text, items, m) ==
    IF At(text, m) = "}" THEN ParseOk(PyDict(items), m + 1)
    ELSE IF At(text, m) = "," /\ At(text, SkipWs(text, m + 1)) = QUOTE
         THEN ParseMembers(text, SkipWs(text, m + 1), items)
    ELSE ParseFail

\* x is what the member's value parsed to
MemberValue(text, acc, key, x) ==
    IF x.ok THEN MemberNext(text, DictSet(acc, key, x.val), SkipWs(text, x.pos))
    ELSE ParseFail

\* k is what the member's key scanned to
MemberKey(text, acc, k) ==
    IF k.ok /\ At(text, SkipWs(text, k.pos)) = ":"
    THEN MemberValue(text, acc, k.val.v,
                     ParseValue(text, SkipWs(text, SkipWs(text, k.pos) + 1)))
    ELSE ParseFail

\* i is at the opening quote of a key
ParseMembers(text, i, acc) == MemberKey(text, acc, ScanStr(text, i + 1, <<>>))

\* after an element, at m
ItemNext(text, items, m) ==
    IF At(text, m) = "]" THEN ParseOk(PyList(items), m + 1)
    ELSE IF At(text, m) = "," THEN ParseItems(text, SkipWs(text, m + 1), items)
    ELSE ParseFail

\* x is what the element parsed to
ItemValue(text, acc, x) ==
    IF x.ok THEN ItemNext(text, Append(acc, x.val), SkipWs(text, x.pos)) ELSE ParseFail

\* i is at the first character of an element
ParseItems(text, i, acc) == ItemValue(text, acc, ParseValue(text, i))

\* r is what the text parsed to from its first character that is not white space
WholeText(text, r) ==
    IF r.ok /\ SkipWs(text, r.pos) > Len(text)
    THEN [ok |-> TRUE, val |-> r.val]
    ELSE [ok |-> FALSE, val |-> PyNone]

\* json.loads: [ok, val]; ok = FALSE stands for the JSONDecodeError it raises
json_loads(text) == WholeText(text, ParseValue(text, SkipWs(text, 1)))

(***************************************************************************)
(* Keys and fixed texts                                                    *)
(***************************************************************************)
K_weekly_goals == <<"w", "e", "e", "k", "l", "y", "_", "g", "o", "a", "l", "s">>
K_activities == <<"a", "c", "t", "i", "v", "i", "t", "i", "e", "s">>
K_time_per_day == <<"t", "i", "m", "e", "_", "p", "e", "r", "_", "d", "a", "y">>
K_day == <<"d", "a", "y">>
K_type == <<"t", "y", "p", "e">>
K_item == <<"i", "t", "e", "m">>
K_focus_phrases == <<"f", "o", "c", "u", "s", "_", "p", "h", "r", "a", "s", "e", "s">>
K_missions == <<"m", "i", "s", "s", "i", "o", "n", "s">>
K_title == <<"t", "i", "t", "l", "e">>
K_id == <<"i", "d">>
K_series == <<"s", "e", "r", "i", "e", "s">>
K_level == <<"l", "e", "v", "e", "l">>
K_content == <<"c", "o", "n", "t", "e", "n", "t">>
K_phrases == <<"p", "h", "r", "a", "s", "e", "s">>
K_summary == <<"s", "u", "m", "m", "a", "r", "y">>
K_parent_tips == <<"p", "a", "r", "e", "n", "t", "_", "t", "i", "p", "s">>
K_value == <<"v", "a", "l", "u", "e">>
K_choices == <<"c", "h", "o", "i", "c", "e", "s">>
K_message == <<"m", "e", "s", "s", "a", "g", "e">>
K_role == <<"r", "o", "l", "e">>
K_query == <<"q", "u", "e", "r", "y">>
K_docs == <<"d", "o", "c", "s">>

\* ", ".join(xs) of a sequence of texts
RECURSIVE JoinFrom(_, _, _)
JoinFrom(xs, i, sep) ==
    IF i > Len(xs) THEN <<>>
    ELSE IF i = Len(xs) THEN xs[i]
    ELSE xs[i] \o sep \o JoinFrom(xs, i + 1, sep)
Join(xs, sep) == JoinFrom(xs, 1, sep)
CommaSpace == <<",", " ">>

\* what the page shows, in order: one element per st.* call
UiEl(kind, data) == [kind |-> kind, data |-> data]

(***************************************************************************)
(* rule_based_plan                                                         *)
(***************************************************************************)
focus_bank ==
    PyDict(<<
      <<<<"A", "0">>, PyList(<<PyStr(<<"H", "e", "l", "l", "o", "!">>), PyStr(<<"M", "y", " ", "n", "a", "m", "e", " ",
                                                        "i", "s", " ", ".", ".", ".">>),
                          PyStr(<<"I", " ", "l", "i", "k", "e", " ", ".", ".", ".">>)>>)>>,
      <<<<"A", "1">>, PyList(<<PyStr(<<"C", "a", "n", " ", "I", " ", ".", ".", ".", "?">>), PyStr(<<"I", " ", "w", "a", "n", "t", " ", ".",
                                                            ".", ".">>),
                          PyStr(<<"I", "t", "'", "s", " ", "m", "y", " ", "t", "u", "r", "n", ".">>)>>)>>,
      <<<<"A", "2">>, PyList(<<PyStr(<<"Y", "e", "s", "t", "e", "r", "d", "a", "y", " ", "I", " ", ".",
                                   ".", ".">>), PyStr(<<"B", "e", "c", "a", "u", "s", "e",
                                                                 " ", ".", ".", ".">>),
                          PyStr(<<"L", "e", "t", "'", "s", " ", "t", "r", "y", " ", ".", ".", ".">>)>>)>>,
      <<<<"B", "1">>, PyList(<<PyStr(<<"I", "n", " ", "m", "y", " ", "o", "p", "i", "n", "i", "o", "n",
                                   " ", ".", ".", ".">>), PyStr(<<"I", " ", "p", "r", "e", "f",
                                                                   "e", "r", " ", ".", ".", ".">>),
                          PyStr(<<"B", "e", " ", "c", "a", "r", "e", "f", "u", "l", "!">>)>>)>>
    >>)

\* focus_bank.get(level, focus_bank["A1"])
\* a variant that falls back to A0: C2 must tell it from PlanPhrases
PlanPhrasesDefaultA0(level) == DictGet(focus_bank, level, DictGet(focus_bank, <<"A", "0">>, PyNone))

PlanPhrases(level) == DictGet(focus_bank, level, DictGet(focus_bank, <<"A", "1">>, PyNone))

days == <<<<"M", "o", "n">>, <<"T", "u", "e">>, <<"W", "e", "d">>, <<"T", "h", "u">>, <<"F", "r", "i">>, <<"S", "a", "t">>, <<"S", "u", "n">>>>

\* listening, speaking, reading, writing
types == <<<<"U+B4E3", "U+AE30">>, <<"U+B9D0", "U+D558", "U+AE30">>, <<"U+C77D", "U+AE30">>, <<"U+C4F0", "U+AE30">>>>

plan_missions ==
    PyList(<<PyStr(<<"U+D45C", "U+D604", " ", "U+C2A4", "U+D2F0", "U+CEE4", " ", "U+CC3E", "U+AE30">>),
             PyStr(<<"U+C100", "U+B3C4", "U+C789", " ", "2", "U+D68C">>),
             PyStr(<<"U+AC00", "U+C815", " ", "U+B300", "U+D654", " ", "1", "U+D68C", " ",
                     "U+C0AC", "U+C6A9">>)>>)

\* days[i % 7] and [..][i % 4]; Python indexes from 0
\* a variant that cycles over the five weekdays: C1 must tell it from PlanDay
PlanDayWeekdays(i) == days[(i % 5) + 1]

PlanDay(i) == days[(i % 7) + 1]
PlanType(i) == types[(i % 4) + 1]

PlanActivity(i, character, phrases) ==
    PyDict(<<
      <<K_day, PyStr(PlanDay(i))>>,
      <<K_type, PyStr(PlanType(i))>>,
      <<K_item, PyStr(character \o <<" ", "c", "l", "i", "p", "/", "r", "e", "a", "d">>)>>,
      <<K_focus_phrases, phrases>>,
      <<K_missions, plan_missions>>
    >>)

\* for i in range(sessions_per_week): activities.append(...)
RECURSIVE PlanLoop(_, _, _, _, _)
PlanLoop(i, n, character, phrases, activities) ==
    IF i >= n THEN activities
    ELSE PlanLoop(i + 1, n, character, phrases,
                  Append(activities, PlanActivity(i, character, phrases)))

PlanGoals(sessions_per_week, minutes_per_session) ==
    IntToStr(sessions_per_week) \o <<"U+D68C", " ", "U+00D7", " ">>
    \o IntToStr(minutes_per_session) \o <<"U+BD84", " ", "/", " ", "U+D68C">>

\* a variant that halves the time of children under five: C9 must tell it from
\* rule_based_plan
rule_based_plan_by_age(age, level, character, sessions_per_week, minutes_per_session) ==
    PyDict(<<
      <<K_weekly_goals, PyStr(PlanGoals(sessions_per_week, minutes_per_session))>>,
      <<K_activities,
        PyList(PlanLoop(0, sessions_per_week, character, PlanPhrases(level), <<>>))>>,
      <<K_time_per_day,
        PyInt(IF age < 5 THEN minutes_per_session \div 2 ELSE minutes_per_session)>>
    >>)

rule_based_plan(age, level, character, sessions_per_week, minutes_per_session) ==
    PyDict(<<
      <<K_weekly_goals, PyStr(PlanGoals(sessions_per_week, minutes_per_session))>>,
      <<K_activities,
        PyList(PlanLoop(0, sessions_per_week, character, PlanPhrases(level), <<>>))>>,
      <<K_time_per_day, PyInt(minutes_per_session)>>
    >>)

(***************************************************************************)
(* State                                                                   *)
(***************************************************************************)
VARIABLES
    config,       \* the six settings read once at start-up
    pc,           \* where the Search handler stands: idle, search_wait, aoai_wait
    q, top, do_rag, \* the widget values of the press being handled
    net,          \* requests sent and replies received during this press, in order
    ui,           \* what the Search tab has shown during this press, in order
    results,      \* what azure_search returned (None before it returns)
    rag,          \* what aoai_chat returned (None before it returns)
    fault,        \* the exception that ended the script run, or "none"
    searchReply,  \* the reply azure_search got
    aoaiReply,    \* the reply aoai_chat got
    planArgs,     \* the arguments of the latest rule_based_plan call
    plan,         \* what it returned (None before the first call)
    prevArgs,     \* the arguments of the call before
    prevPlan,     \* what that call returned
    planUi,       \* what the Plan tab has shown for the latest press
    promptArgs,   \* the arguments of the latest build_rag_prompt call
    messages      \* what it returned (None before the first call)

searchVars ==
    <<config, pc, q, top, do_rag, net, ui, results, rag, fault, searchReply, aoaiReply>>
planVars == <<planArgs, plan, prevArgs, prevPlan, planUi>>
promptVars == <<promptArgs, messages>>
vars == <<searchVars, planVars, promptVars>>

(***************************************************************************)
(* The Plan tab                                                            *)
(***************************************************************************)
Bluey == <<"B", "l", "u", "e", "y">>
PeppaPig == <<"P", "e", "p", "p", "a", " ", "P", "i", "g">>
DisneyPixar == <<"D", "i", "s", "n", "e", "y", "/", "P", "i", "x", "a", "r">>
Others == <<"O", "t", "h", "e", "r", "s">>

\* st.number_input("age", 3, 12, 7), st.slider(.., 2, 7, 4), st.slider(.., 10, 30, 15)
AgeMin == 3
AgeMax == 12
AgeDefault == 7
SessionsMin == 2
SessionsMax == 7
SessionsDefault == 4
MinutesMin == 10
MinutesMax == 30
MinutesDefault == 15

UiAges == {AgeMin, AgeDefault, AgeMax}
UiLevels == {<<"A", "0">>, <<"A", "1">>, <<"A", "2">>, <<"B", "1">>}
UiCharacters == {Bluey, PeppaPig, DisneyPixar, Others}
UiSessions == SessionsMin..SessionsMax
UiMinutes == {MinutesMin, MinutesDefault, MinutesMax}

PlanArgs(age, level, character, sessions, minutes) ==
    [age |-> age, level |-> level, character |-> character,
     sessions |-> sessions, minutes |-> minutes]
NoArgs == PlanArgs(0, <<>>, <<>>, 0, 0)

\* st.markdown(f"**{act['day']}** -- {act['item']} ({act['type']})") and the two st.write
PlanActivityUi(act) ==
    <<UiEl("markdown",
           PyStr(<<"*", "*">> \o DictGet(act, K_day, PyNone).v \o <<"*", "*", " ", "U+2014", " ">>
                 \o DictGet(act, K_item, PyNone).v \o <<" ", "(">>
                 \o DictGet(act, K_type, PyNone).v \o <<")">>)),
      UiEl("write",
           PyStr(Join([i \in 1..Len(DictGet(act, K_focus_phrases, PyNone).v) |->
                         DictGet(act, K_focus_phrases, PyNone).v[i].v], CommaSpace))),
      UiEl("write",
           PyStr(Join([i \in 1..Len(DictGet(act, K_missions, PyNone).v) |->
                         DictGet(act, K_missions, PyNone).v[i].v], CommaSpace)))>>

RECURSIVE PlanActivitiesUi(_, _)
PlanActivitiesUi(acts, i) ==
    IF i > Len(acts) THEN <<>>
    ELSE PlanActivityUi(acts[i]) \o PlanActivitiesUi(acts, i + 1)

PlanExportOnlyActivities(p) == json_dumps(DictGet(p, K_activities, PyNone), 2)

\* data=json.dumps(plan, ensure_ascii=False, indent=2) of the download button
PlanExport(p) == json_dumps(p, 2)

\* the data of the download button the Plan tab shows
PlanDownload == planUi[Len(planUi)].data.v

\* the Plan tab as it first shows: the widgets at their defaults, no press yet
PlanInit ==
    /\ planArgs = PlanArgs(AgeDefault, <<"A", "1">>, Bluey, SessionsDefault, MinutesDefault)
    /\ plan = PyNone
    /\ prevArgs = NoArgs
    /\ prevPlan = PyNone
    /\ planUi = <<>>

\* a widget of the Plan tab is given another value: the script runs again with the
\* button not pressed, and the tab shows no plan
SetWidget(args) ==
    /\ args # planArgs
    /\ planArgs' = args
    /\ plan' = PyNone
    /\ planUi' = <<>>
    /\ UNCHANGED <<prevArgs, prevPlan>>
    /\ UNCHANGED <<searchVars, promptVars>>

SetAge(age) == SetWidget([planArgs EXCEPT !.age = age])
SetLevel(level) == SetWidget([planArgs EXCEPT !.level = level])
SetCharacter(character) == SetWidget([planArgs EXCEPT !.character = character])
SetSessions(sessions) == SetWidget([planArgs EXCEPT !.sessions = sessions])
SetMinutes(minutes) == SetWidget([planArgs EXCEPT !.minutes = minutes])

\* what the Plan tab shows for plan p
PlanTabUi(p) ==
    <<UiEl("success", PyNone)>>
    \o PlanActivitiesUi(DictGet(p, K_activities, PyNone).v, 1)
    \o <<UiEl("download", PyStr(PlanExport(p)))>>

\* "if st.button(...)" of the Plan tab: the whole handler, on the widgets' values
PressPlan ==
    /\ plan' = rule_based_plan(planArgs.age, planArgs.level, planArgs.character,
                               planArgs.sessions, planArgs.minutes)
    /\ planUi' = PlanTabUi(plan')
    /\ UNCHANGED <<planArgs, prevArgs, prevPlan>>
    /\ UNCHANGED <<searchVars, promptVars>>

(***************************************************************************)
(* rule_based_plan as a function: calls with arguments of bounded sets     *)
(***************************************************************************)
MaxSessions == 14
PlanAges == {3, 7}
PlanLevels == UiLevels \cup {<<"Z", "Z">>, <<>>}
PlanCharacters == {Bluey, <<"a", "\"", "b">>}
PlanMinutes == {10, 15}

PlanArgSets ==
    {PlanArgs(age, level, character, sessions, minutes) :
        age \in PlanAges, level \in PlanLevels, character \in PlanCharacters,
        sessions \in 1..MaxSessions, minutes \in PlanMinutes}

\* the arguments are drawn, the call is still to come
PlanCallInit ==
    /\ planArgs \in PlanArgSets
    /\ plan = PyNone
    /\ prevArgs = NoArgs
    /\ prevPlan = PyNone
    /\ planUi = <<>>

\* the call on the drawn arguments
CallPlan ==
    /\ plan = PyNone
    /\ plan' = rule_based_plan(planArgs.age, planArgs.level, planArgs.character,
                               planArgs.sessions, planArgs.minutes)
    /\ UNCHANGED <<planArgs, prevArgs, prevPlan, planUi>>
    /\ UNCHANGED <<searchVars, promptVars>>

\* one call after another, the one before it remembered
RepMaxSessions == 3
RepAges == {3, 7}
RepLevels == {<<"A", "1">>, <<"Z", "Z">>}
RepCharacters == {Bluey, Others}
RepMinutes == {10, 15}

CallPlanAgain(age, level, character, sessions, minutes) ==
    /\ planArgs' = PlanArgs(age, level, character, sessions, minutes)
    /\ plan' = rule_based_plan(age, level, character, sessions, minutes)
    /\ prevArgs' = planArgs
    /\ prevPlan' = plan
    /\ UNCHANGED planUi
    /\ UNCHANGED <<searchVars, promptVars>>

(***************************************************************************)
(* build_rag_prompt                                                        *)
(***************************************************************************)
ContentLimit == 600

SystemText ==
    <<"Y", "o", "u", " ", "a", "r", "e", " ", "a", " ", "k", "i", "d", "s", " ", "E", "n", "g",
      "l", "i", "s", "h", " ", "c", "o", "a", "c", "h", ".", " ", "R", "e", "t", "u", "r", "n",
      " ", "J", "S", "O", "N", " ", "o", "n", "l", "y", ".", " ", "M", "a", "k", "e", " ", "o",
      "u", "t", "p", "u", "t", "s", " ", "s", "h", "o", "r", "t", ",", " ", "A", "1", "~", "A",
      "2", " ", "f", "r", "i", "e", "n", "d", "l", "y", ",", " ", "a", "n", "d", " ", "a", "c",
      "t", "i", "o", "n", "a", "b", "l", "e", " ", "f", "o", "r", " ", "p", "a", "r", "e", "n",
      "t", "s", ".">>

TaskText ==
    <<"C", "r", "e", "a", "t", "e", " ", "c", "h", "i", "l", "d", "-", "f", "r", "i", "e", "n",
      "d", "l", "y", " ", "s", "u", "m", "m", "a", "r", "y", " ", "+", " ", "k", "e", "y", " ",
      "p", "h", "r", "a", "s", "e", "s", " ", "+", " ", "3", " ", "m", "i", "s", "s", "i", "o",
      "n", "s", " ", "+", " ", "p", "a", "r", "e", "n", "t", " ", "c", "o", "a", "c", "h", "i",
      "n", "g", " ", "f", "o", "r", " ", "t", "h", "e", " ", "q", "u", "e", "r", "y">>

output_schema ==
    PyDict(<<
      <<K_summary, PyStr(<<"2", "-", "3", " ", "s", "e", "n", "t", "e", "n", "c", "e", "s", " ",
                           "f", "o", "r", " ", "a", " ", "c", "h", "i", "l", "d">>)>>,
      <<K_focus_phrases, PyList(<<PyStr(<<".", ".", ".">>), PyStr(<<".", ".", ".">>), PyStr(<<".", ".", ".">>)>>)>>,
      <<K_missions, PyList(<<PyStr(<<"f", "i", "n", "d", " ", "e", "x", "p", "r", "e", "s", "s",
                                     "i", "o", "n">>), PyStr(<<"s", "h", "a", "d", "o", "w",
                                                                   "i", "n", "g", " ", "2", "x">>),
                            PyStr(<<"u", "s", "e", " ", "a", "t", " ", "h", "o", "m", "e", " ",
                                    "o", "n", "c", "e">>)>>)>>,
      <<K_parent_tips, PyList(<<PyStr(<<"p", "r", "a", "i", "s", "e", " ", "l", "i", "n", "e", " ",
                                        "1">>), PyStr(<<"r", "u", "l", "e", "/", "t",
                                                                    "i", "p", " ", "1">>)>>)>>
    >>)

\* d.get("title") or d.get("id", "")
SnippetTitle(d) == PyOr(DictGet(d, K_title, PyNone), DictGet(d, K_id, PyStr(<<>>)))

\* (d.get("content", "") or "")[:600], of a text or a list
\* a variant that cuts at the length of the preview of the result list: C7 must tell
\* it from SnippetContent
SnippetContentPreview(d) ==
    LET c == PyOr(DictGet(d, K_content, PyStr(<<>>)), PyStr(<<>>))
    IN  [t |-> c.t, v |-> Prefix(c.v, 300)]

SnippetContent(d) ==
    LET c == PyOr(DictGet(d, K_content, PyStr(<<>>)), PyStr(<<>>))
    IN  [t |-> c.t, v |-> Prefix(c.v, ContentLimit)]

Snippet(d) ==
    PyDict(<<
      <<K_title, SnippetTitle(d)>>,
      <<K_series, DictGet(d, K_series, PyStr(<<>>))>>,
      <<K_level, DictGet(d, K_level, PyStr(<<>>))>>,
      <<K_phrases, DictGet(d, K_phrases, PyList(<<>>))>>,
      <<K_content, SnippetContent(d)>>
    >>)

\* for d in docs: snippets.append({...})
Snippets(docs) == [i \in 1..Len(docs) |-> Snippet(docs[i])]

PromptUser(query, docs) ==
    PyDict(<<
      <<<<"t", "a", "s", "k">>, PyStr(TaskText)>>,
      <<K_query, PyStr(query)>>,
      <<K_docs, PyList(Snippets(docs))>>,
      <<<<"o", "u", "t", "p", "u", "t", "_", "s", "c", "h", "e", "m", "a">>, output_schema>>
    >>)

\* query is a text, docs a sequence of dicts
build_rag_prompt(query, docs) ==
    PyList(<<
      PyDict(<< <<K_role, PyStr(<<"s", "y", "s", "t", "e", "m">>)>>, <<K_content, PyStr(SystemText)>> >>),
      PyDict(<< <<K_role, PyStr(<<"u", "s", "e", "r">>)>>,
                <<K_content, PyStr(json_dumps(PromptUser(query, docs), -1))>> >>)
    >>)

(***************************************************************************)
(* Settings, requests and replies                                          *)
(***************************************************************************)
SEARCH_ENDPOINT == config.SEARCH_ENDPOINT
SEARCH_KEY == config.SEARCH_KEY
SEARCH_INDEX == config.SEARCH_INDEX
AOAI_ENDPOINT == config.AOAI_ENDPOINT
AOAI_KEY == config.AOAI_KEY
AOAI_DEPLOYMENT == config.AOAI_DEPLOYMENT

\* get_secret(name) with default "": each setting is empty or set
Configs ==
    [SEARCH_ENDPOINT : {"", "https://search.example"},
     SEARCH_KEY : {"", "search-key"},
     SEARCH_INDEX : {"", "kids"},
     AOAI_ENDPOINT : {"", "https://aoai.example"},
     AOAI_KEY : {"", "aoai-key"},
     AOAI_DEPLOYMENT : {"", "gpt"}]

\* not (SEARCH_ENDPOINT and SEARCH_KEY and SEARCH_INDEX) is the negation of this
\* a variant that looks at the endpoint alone: C3 must tell it from SearchConfigured
SearchConfiguredEndpointOnly == SEARCH_ENDPOINT # ""

SearchConfigured == SEARCH_ENDPOINT # "" /\ SEARCH_KEY # "" /\ SEARCH_INDEX # ""

\* a variant that looks at the endpoint alone: C10 must tell it from AoaiConfigured
AoaiConfiguredEndpointOnly == AOAI_ENDPOINT # ""

\* not (AOAI_ENDPOINT and AOAI_KEY and AOAI_DEPLOYMENT) is the negation of this
AoaiConfigured == AOAI_ENDPOINT # "" /\ AOAI_KEY # "" /\ AOAI_DEPLOYMENT # ""

SearchTimeout == 30
AoaiTimeout == 60
AoaiMaxTokens == 800

Request(svc, url, key, data, timeout) ==
    [ev |-> "request", svc |-> svc, url |-> url, key |-> key, data |-> data,
     timeout |-> timeout]
Received(svc) ==
    [ev |-> "reply", svc |-> svc, url |-> <<>>, key |-> "", data |-> <<>>, timeout |-> 0]

\* what requests.post ends with: an exception of requests, or a response
Reply(kind, status, body) == [kind |-> kind, status |-> status, body |-> body]
NoReply == Reply("none", 0, <<>>)

\* Response.raise_for_status raises for 4xx and 5xx
RaisesForStatus(status) == status >= 400 /\ status < 600

\* the outcome of a try block: an exception caught by "except Exception", or a value
Raised == [ok |-> FALSE, val |-> PyNone]
Returned(val) == [ok |-> TRUE, val |-> val]

\* x[key] for a text key: KeyError or TypeError unless x is a dict holding key
GetItem(x, key) ==
    IF x.t = "dict" /\ DictHas(x, key) THEN Returned(DictGet(x, key, PyNone)) ELSE Raised

\* x[0]
FirstItem(x) ==
    IF x.t = "list" /\ Len(x.v) > 0 THEN Returned(x.v[1])
    ELSE IF x.t = "str" /\ Len(x.v) > 0 THEN Returned(PyStr(<<x.v[1]>>))
    ELSE Raised

\* iter(x): the items "for .. in x" and str.join walk through, or TypeError
Iterate(x) ==
    CASE x.t = "list" -> [ok |-> TRUE, items |-> x.v]
      [] x.t = "str" -> [ok |-> TRUE, items |-> [i \in 1..Len(x.v) |-> PyStr(<<x.v[i]>>)]]
      [] x.t = "dict" -> [ok |-> TRUE, items |-> [i \in 1..Len(x.v) |-> PyStr(x.v[i][1])]]
      [] OTHER -> [ok |-> FALSE, items |-> <<>>]

JoinItems(it) ==
    IF it.ok /\ \A i \in 1..Len(it.items) : it.items[i].t = "str"
    THEN [ok |-> TRUE, text |-> Join([i \in 1..Len(it.items) |-> it.items[i].v], CommaSpace)]
    ELSE [ok |-> FALSE, text |-> <<>>]

\* ", ".join(x): TypeError unless x is iterable and yields only str
JoinValue(x) == JoinItems(Iterate(x))

(***************************************************************************)
(* azure_search                                                            *)
(***************************************************************************)
\* payload = {"search": query, "top": top, "queryType": "simple"}; json.dumps(payload).
\* json.dumps escapes non-ASCII here (ensure_ascii); the queries of the Search tab
\* are ASCII in this model, for which it writes what ensure_ascii=False writes.
SearchPayload(query, n) ==
    json_dumps(PyDict(<< <<<<"s", "e", "a", "r", "c", "h">>, PyStr(query)>>, <<<<"t", "o", "p">>, PyInt(n)>>,
                         <<<<"q", "u", "e", "r", "y", "T", "y", "p", "e">>, PyStr(<<"s", "i", "m", "p", "l", "e">>)>> >>), -1)

SearchRequest(query, n) ==
    Request("search", <<SEARCH_ENDPOINT, SEARCH_INDEX>>, SEARCH_KEY,
            SearchPayload(query, n), SearchTimeout)

\* data = r.json(); return data.get("value", [])
SearchValue(data) ==
    IF ~data.ok THEN Raised
    ELSE IF data.val.t # "dict" THEN Raised
    ELSE Returned(DictGet(data.val, K_value, PyList(<<>>)))

\* the try block of azure_search once requests.post has ended with reply
SearchTry(reply) ==
    IF reply.kind # "response" \/ RaisesForStatus(reply.status) THEN Raised
    ELSE SearchValue(json_loads(reply.body))

(***************************************************************************)
(* aoai_chat                                                               *)
(***************************************************************************)
AoaiPayload(msgs) ==
    json_dumps(PyDict(<<
      <<<<"m", "e", "s", "s", "a", "g", "e", "s">>, msgs>>,
      <<<<"t", "e", "m", "p", "e", "r", "a", "t", "u", "r", "e">>, PyFloat(<<"0", ".", "3">>)>>,
      <<<<"m", "a", "x", "_", "t", "o", "k", "e", "n", "s">>, PyInt(AoaiMaxTokens)>>,
      <<<<"r", "e", "s", "p", "o", "n", "s", "e", "_", "f", "o", "r", "m", "a", "t">>, PyDict(<< <<K_type, PyStr(<<"j", "s", "o", "n", "_", "o", "b", "j",
                                                           "e", "c", "t">>)>> >>)>>
    >>), -1)

AoaiRequest(msgs) ==
    Request("aoai", <<AOAI_ENDPOINT, AOAI_DEPLOYMENT>>, AOAI_KEY, AoaiPayload(msgs),
            AoaiTimeout)

\* x[key] of the value a subscript before it gave, if it gave one
ThenItem(r, key) == IF r.ok THEN GetItem(r.val, key) ELSE Raised
ThenFirst(r) == IF r.ok THEN FirstItem(r.val) ELSE Raised

\* data["choices"][0]["message"]["content"]
AoaiContent(data) ==
    ThenItem(ThenItem(ThenFirst(GetItem(data, K_choices)), K_message), K_content)

\* return json.loads(content): TypeError unless content is a str
AoaiParsed(parsed) == IF parsed.ok THEN Returned(parsed.val) ELSE Raised
AoaiLoads(content) ==
    IF ~content.ok \/ content.val.t # "str" THEN Raised
    ELSE AoaiParsed(json_loads(content.val.v))

\* data = r.json() and what follows it
AoaiData(data) == IF ~data.ok THEN Raised ELSE AoaiLoads(AoaiContent(data.val))

\* the try block of aoai_chat once requests.post has ended with reply
AoaiTry(reply) ==
    IF reply.kind # "response" \/ RaisesForStatus(reply.status) THEN Raised
    ELSE AoaiData(json_loads(reply.body))

(***************************************************************************)
(* The Search tab: what the handler shows                                  *)
(***************************************************************************)
PreviewLimit == 300

SearchWarning == UiEl("warning", PyStr(<<"A", "z", "u", "r", "e", " ", "A", "I", " ", "S", "e",
                                         "a", "r", "c", "h", " ", "U+C124", "U+C815", "U+C774",
                                         " ", "U+D544", "U+C694", "U+D569", "U+B2C8", "U+B2E4", ".">>))
SearchError == UiEl("error", PyStr(<<"U+AC80", "U+C0C9", " ", "U+D638", "U+CD9C", " ", "U+C2E4",
                                     "U+D328", ":", " ">>))
NoResultsInfo == UiEl("info", PyStr(<<"U+AC80", "U+C0C9", " ", "U+ACB0", "U+ACFC", "U+AC00", " ",
                                      "U+C5C6", "U+C2B5", "U+B2C8", "U+B2E4", ".">>))
AoaiWarning == UiEl("warning", PyStr(<<"A", "z", "u", "r", "e", " ", "O", "p", "e", "n", "A", "I",
                                       " ", "U+C124", "U+C815", "U+C774", " ", "U+D544", "U+C694",
                                       "U+D569", "U+B2C8", "U+B2E4", ".">>))
AoaiError == UiEl("error", PyStr(<<"A", "O", "A", "I", " ", "U+D638", "U+CD9C", " ", "U+C2E4",
                                   "U+D328", ":", " ">>))

\* a stretch of the script: it ran through, or an exception nothing catches ended it
Shown(els) == [ok |-> TRUE, els |-> els, exc |-> "none"]
Faulted(els, exc) == [ok |-> FALSE, els |-> els, exc |-> exc]

\* content[:300] + ("..." if len(content) > 300 else "")
Preview(content) ==
    Prefix(content, PreviewLimit) \o (IF Len(content) > PreviewLimit THEN <<".", ".", ".">> ELSE <<>>)

\* if phrases: st.caption(.. + ", ".join(phrases)); the caption is kept without its
\* fixed label
DocCaption(shown, phrases, joined) ==
    IF ~Truthy(phrases) THEN Shown(shown)
    ELSE IF ~joined.ok THEN Faulted(shown, "TypeError")
    ELSE Shown(Append(shown, UiEl("caption", PyStr(joined.text))))

\* if content: st.write(content[:300] + ...), then the phrases
DocBody(head, content, phrases) ==
    IF ~Truthy(content) THEN DocCaption(<<head>>, phrases, JoinValue(phrases))
    ELSE IF content.t # "str" THEN Faulted(<<head>>, "TypeError")
    ELSE DocCaption(<<head, UiEl("write", PyStr(Preview(content.v)))>>, phrases,
                    JoinValue(phrases))

\* the body of "for doc in results"; the markdown line is kept as the three values
\* it formats
RenderDoc(doc) ==
    IF doc.t # "dict" THEN Faulted(<<>>, "AttributeError")
    ELSE DocBody(UiEl("markdown",
                      PyList(<<PyOr(DictGet(doc, K_title, PyNone), DictGet(doc, K_id, PyNone)),
                               DictGet(doc, K_series, PyStr(<<>>)),
                               DictGet(doc, K_level, PyStr(<<>>))>>)),
                 DictGet(doc, K_content, PyStr(<<>>)),
                 DictGet(doc, K_phrases, PyList(<<>>)))

RECURSIVE RenderFrom(_, _, _)
RenderNext(items, i, els, r) ==
    IF r.ok THEN RenderFrom(items, i + 1, els \o r.els) ELSE Faulted(els \o r.els, r.exc)
RenderFrom(items, i, els) ==
    IF i > Len(items) THEN Shown(els) ELSE RenderNext(items, i, els, RenderDoc(items[i]))

RenderItems(it) == IF it.ok THEN RenderFrom(it.items, 1, <<>>) ELSE Faulted(<<>>, "TypeError")

\* for doc in results: ...
RenderResults(res) == RenderItems(Iterate(res))

Dinosaur == <<"D", "i", "n", "o", "s", "a", "u", "r">>
Pororo == <<"P", "o", "r", "o", "r", "o">>

yt_samples ==
    PyDict(<<
      <<Bluey, PyList(<<PyStr(<<"h", "t", "t", "p", "s", ":", "/", "/", "w", "w", "w", ".", "y",
                                "o", "u", "t", "u", "b", "e", ".", "c", "o", "m", "/", "e", "m",
                                "b", "e", "d", "/", "9", "J", "k", "Q", "O", "Y", "w", "Y", "v",
                                "6", "A">>),
                        PyStr(<<"h", "t", "t", "p", "s", ":", "/", "/", "w", "w", "w", ".", "y",
                                "o", "u", "t", "u", "b", "e", ".", "c", "o", "m", "/", "e", "m",
                                "b", "e", "d", "/", "6", "R", "3", "N", "Q", "b", "6", "p", "Q",
                                "1", "w">>),
                        PyStr(<<"h", "t", "t", "p", "s", ":", "/", "/", "w", "w", "w", ".", "y",
                                "o", "u", "t", "u", "b", "e", ".", "c", "o", "m", "/", "e", "m",
                                "b", "e", "d", "/", "4", "b", "6", "b", "L", "r", "2", "Q", "b",
                                "6", "E">>)>>)>>,
      <<PeppaPig, PyList(<<PyStr(<<"h", "t", "t", "p", "s", ":", "/", "/", "w", "w", "w", ".", "y",
                                   "o", "u", "t", "u", "b", "e", ".", "c", "o", "m", "/", "e", "m",
                                   "b", "e", "d", "/", "9", "w", "K", "6", "A", "2", "e", "A", "5",
                                   "n", "A">>),
                           PyStr(<<"h", "t", "t", "p", "s", ":", "/", "/", "w", "w", "w", ".", "y",
                                   "o", "u", "t", "u", "b", "e", ".", "c", "o", "m", "/", "e", "m",
                                   "b", "e", "d", "/", "1", "S", "9", "U", "e", "Q", "n", "U", "n",
                                   "x", "w">>),
                           PyStr(<<"h", "t", "t", "p", "s", ":", "/", "/", "w", "w", "w", ".", "y",
                                   "o", "u", "t", "u", "b", "e", ".", "c", "o", "m", "/", "e", "m",
                                   "b", "e", "d", "/", "2", "p", "L", "T", "-", "o", "l", "g", "U",
                                   "J", "s">>)>>)>>,
      <<Dinosaur, PyList(<<PyStr(<<"h", "t", "t", "p", "s", ":", "/", "/", "w", "w", "w", ".", "y",
                                   "o", "u", "t", "u", "b", "e", ".", "c", "o", "m", "/", "e", "m",
                                   "b", "e", "d", "/", "3", "o", "5", "y", "6", "z", "5", "l", "5",
                                   "x", "w">>),
                           PyStr(<<"h", "t", "t", "p", "s", ":", "/", "/", "w", "w", "w", ".", "y",
                                   "o", "u", "t", "u", "b", "e", ".", "c", "o", "m", "/", "e", "m",
                                   "b", "e", "d", "/", "2", "p", "L", "T", "-", "o", "l", "g", "U",
                                   "J", "s">>),
                           PyStr(<<"h", "t", "t", "p", "s", ":", "/", "/", "w", "w", "w", ".", "y",
                                   "o", "u", "t", "u", "b", "e", ".", "c", "o", "m", "/", "e", "m",
                                   "b", "e", "d", "/", "1", "S", "9", "U", "e", "Q", "n", "U", "n",
                                   "x", "w">>)>>)>>,
      <<DisneyPixar, PyList(<<PyStr(<<"h", "t", "t", "p", "s", ":", "/", "/", "w", "w", "w", ".",
                                      "y", "o", "u", "t", "u", "b", "e", ".", "c", "o", "m", "/",
                                      "e", "m", "b", "e", "d", "/", "0", "m", "v", "M", "6", "p",
                                      "5", "o", "Q", "9", "A">>),
                              PyStr(<<"h", "t", "t", "p", "s", ":", "/", "/", "w", "w", "w", ".",
                                      "y", "o", "u", "t", "u", "b", "e", ".", "c", "o", "m", "/",
                                      "e", "m", "b", "e", "d", "/", "6", "Q", "e", "6", "p", "6",
                                      "p", "6", "p", "6", "A">>),
                              PyStr(<<"h", "t", "t", "p", "s", ":", "/", "/", "w", "w", "w", ".",
                                      "y", "o", "u", "t", "u", "b", "e", ".", "c", "o", "m", "/",
                                      "e", "m", "b", "e", "d", "/", "7", "Q", "e", "7", "p", "7",
                                      "p", "7", "p", "7", "A">>)>>)>>,
      <<Pororo, PyList(<<PyStr(<<"h", "t", "t", "p", "s", ":", "/", "/", "w", "w", "w", ".", "y",
                                 "o", "u", "t", "u", "b", "e", ".", "c", "o", "m", "/", "e", "m",
                                 "b", "e", "d", "/", "8", "Q", "e", "8", "p", "8", "p", "8", "p",
                                 "8", "A">>),
                         PyStr(<<"h", "t", "t", "p", "s", ":", "/", "/", "w", "w", "w", ".", "y",
                                 "o", "u", "t", "u", "b", "e", ".", "c", "o", "m", "/", "e", "m",
                                 "b", "e", "d", "/", "9", "Q", "e", "9", "p", "9", "p", "9", "p",
                                 "9", "A">>),
                         PyStr(<<"h", "t", "t", "p", "s", ":", "/", "/", "w", "w", "w", ".", "y",
                                 "o", "u", "t", "u", "b", "e", ".", "c", "o", "m", "/", "e", "m",
                                 "b", "e", "d", "/", "0", "Q", "e", "0", "p", "0", "p", "0", "p",
                                 "0", "A">>)>>)>>,
      <<<<"U+AE30", "U+D0C0">>, PyList(<<>>)>>
    >>)

\* urllib.parse.quote_plus on the characters the modelled queries hold: letters and
\* digits stay, a space becomes "+", the rest is percent-encoded
QuotePlusChar(c) ==
    CASE c = " " -> <<"+">>
      [] c = QUOTE -> <<"%", "2", "2">>
      [] c = "/" -> <<"%", "2", "F">>
      [] OTHER -> <<c>>

RECURSIVE QuotePlusFrom(_, _)
QuotePlusFrom(s, i) ==
    IF i > Len(s) THEN <<>> ELSE QuotePlusChar(s[i]) \o QuotePlusFrom(s, i + 1)
quote_plus(s) == QuotePlusFrom(s, 1)

YoutubeVideos(query, yt_videos) ==
    IF Truthy(yt_videos)
    THEN [i \in 1..Len(yt_videos.v) |-> UiEl("video", yt_videos.v[i])]
    ELSE <<UiEl("markdown",
                PyStr(<<"[", "U+C720", "U+D29C", "U+BE0C", "U+C5D0", "U+C11C", " ", "'">> \o query \o <<"'", " ", "U+C601", "U+C0C1", " ", "U+B354",
                                                   " ", "U+BCF4", "U+AE30", "]", "(">>
                      \o <<"h", "t", "t", "p", "s", ":", "/", "/", "w", "w", "w", ".", "y", "o",
                           "u", "t", "u", "b", "e", ".", "c", "o", "m", "/", "r", "e", "s", "u",
                           "l", "t", "s", "?", "s", "e", "a", "r", "c", "h", "_", "q", "u", "e",
                           "r", "y", "=">>
                      \o quote_plus(query \o <<" ", "c", "a", "r", "t", "o", "o", "n">>) \o <<")">>))>>

\* the YouTube block of the handler
YoutubeUi(query) ==
    <<UiEl("markdown", PyStr(<<"-", "-", "-">>)),
      UiEl("markdown", PyStr(<<"#", "#", "#", " ", "U+C720", "U+D29C", "U+BE0C", "U+C5D0",
                               "U+C11C", " ", "'">> \o query \o <<"'", " ", "U+AD00", "U+B828", " ",
                                                             "U+C601", "U+C0C1", " ", "3", "U+AC1C">>))>>
    \o YoutubeVideos(query, DictGet(yt_samples, query, PyList(<<>>)))

\* for m in x: st.write("- " + m), each shown as an element of the given kind
RECURSIVE BulletsFrom(_, _, _, _)
BulletsFrom(items, i, kind, els) ==
    IF i > Len(items) THEN Shown(els)
    ELSE IF items[i].t # "str" THEN Faulted(els, "TypeError")
    ELSE BulletsFrom(items, i + 1, kind,
                     Append(els, UiEl(kind, PyStr(<<"-", " ">> \o items[i].v))))

BulletItems(it, kind) ==
    IF it.ok THEN BulletsFrom(it.items, 1, kind, <<>>) ELSE Faulted(<<>>, "TypeError")
Bullets(x, kind) == BulletItems(Iterate(x), kind)

\* data=json.dumps(rag, ensure_ascii=False, indent=2) of the download button
RagExport(r) == json_dumps(r, 2)

\* the parent tips and the download button
RagTips(r, shown, ts) ==
    IF ~ts.ok THEN Faulted(shown \o ts.els, "TypeError")
    ELSE Shown(shown \o ts.els \o <<UiEl("download", PyStr(RagExport(r)))>>)

\* the missions, then the rest
RagMissions(r, shown, ms) ==
    IF ~ms.ok THEN Faulted(shown \o ms.els, "TypeError")
    ELSE RagTips(r, shown \o ms.els \o <<UiEl("markdown", PyStr(<<"*", "*", "P", "a", "r", "e",
                                                                  "n", "t", " ", "T", "i", "p",
                                                                  "s", "*", "*">>))>>,
                 Bullets(DictGet(r, K_parent_tips, PyList(<<>>)), "tip"))

\* the focus phrases, then the rest
RagPhrases(r, shown, fp) ==
    IF ~fp.ok THEN Faulted(shown, "TypeError")
    ELSE RagMissions(r,
                     shown \o <<UiEl("focus_phrases", PyStr(fp.text)),
                                UiEl("markdown", PyStr(<<"*", "*", "M", "i", "s", "s", "i", "o",
                                                         "n", "s", " ", "(", "3", ")", "*", "*">>))>>,
                     Bullets(DictGet(r, K_missions, PyList(<<>>)), "mission"))

RagHead ==
    <<UiEl("success", PyStr(<<"R", "A", "G", " ", "U+C694", "U+C57D", " ", "U+C0DD", "U+C131",
                              "U+B428">>)),
      UiEl("markdown", PyStr(<<"*", "*", "C", "h", "i", "l", "d", "-", "f", "r", "i", "e", "n",
                               "d", "l", "y", " ", "S", "u", "m", "m", "a", "r", "y", "*", "*">>))>>

\* the block under "if rag:"
RenderRag(r) ==
    IF r.t # "dict" THEN Faulted(RagHead, "AttributeError")
    ELSE RagPhrases(r,
                    RagHead \o <<UiEl("summary", DictGet(r, K_summary, PyStr(<<>>))),
                                 UiEl("markdown", PyStr(<<"*", "*", "F", "o", "c", "u", "s", " ",
                                                          "P", "h", "r", "a", "s", "e", "s", "*",
                                                          "*">>))>>,
                    JoinValue(DictGet(r, K_focus_phrases, PyList(<<>>))))

(***************************************************************************)
(* The Search tab: the handler of the search button.  It stops at its two  *)
(* blocking calls of requests.post; a reply is the step that resumes it.   *)
(***************************************************************************)
\* the handler after the results are shown: the YouTube block, then "if do_rag:"
AfterDocs(res, shown, net0, query, wantRag) ==
    IF ~wantRag
    THEN /\ ui' = shown \o YoutubeUi(query)
         /\ net' = net0
         /\ pc' = "idle"
    ELSE IF ~AoaiConfigured
    THEN /\ ui' = Append(shown \o YoutubeUi(query), AoaiWarning)
         /\ net' = net0
         /\ pc' = "idle"
    ELSE /\ ui' = shown \o YoutubeUi(query)
         /\ net' = Append(net0, AoaiRequest(build_rag_prompt(query, res.v)))
         /\ pc' = "aoai_wait"

\* the "else:" branch, docsUi being what "for doc in results" showed
AfterRender(res, docsUi, ui0, net0, query, wantRag) ==
    /\ fault' = docsUi.exc
    /\ IF ~docsUi.ok
       THEN /\ ui' = ui0 \o docsUi.els
            /\ net' = net0
            /\ pc' = "idle"
       ELSE AfterDocs(res, ui0 \o docsUi.els, net0, query, wantRag)

\* the handler from "if not results:" on, azure_search having returned res; ui0 and
\* net0 are what the press has shown and exchanged so far
AfterSearch(res, ui0, net0, query, wantRag) ==
    /\ results' = res
    /\ rag' = PyNone
    /\ aoaiReply' = NoReply
    /\ IF ~Truthy(res)
       THEN /\ ui' = Append(ui0, NoResultsInfo)
            /\ net' = net0
            /\ fault' = "none"
            /\ pc' = "idle"
       ELSE AfterRender(res, RenderResults(res), ui0, net0, query, wantRag)

\* azure_search returns after its request: t is what its try block came to
SearchReturns(t) ==
    AfterSearch(IF t.ok THEN t.val ELSE PyList(<<>>),
                IF t.ok THEN ui ELSE Append(ui, SearchError),
                Append(net, Received("search")), q, do_rag)

\* "if rag:" and the block under it
AfterAoai(r, ui0, shown) ==
    /\ rag' = r
    /\ IF Truthy(r)
       THEN /\ ui' = ui0 \o shown.els
            /\ fault' = shown.exc
       ELSE /\ ui' = ui0
            /\ fault' = "none"

\* aoai_chat returns after its request: t is what its try block came to
AoaiReturns(t) ==
    IF t.ok
    THEN AfterAoai(t.val, ui, IF Truthy(t.val) THEN RenderRag(t.val) ELSE Shown(<<>>))
    ELSE AfterAoai(PyNone, Append(ui, AoaiError), Shown(<<>>))

\* the button is pressed with the widgets holding qv, topv, ragv
PressSearch(qv, topv, ragv) ==
    /\ pc = "idle"
    /\ q' = qv
    /\ top' = topv
    /\ do_rag' = ragv
    /\ searchReply' = NoReply
    /\ IF ~SearchConfigured
       THEN AfterSearch(PyList(<<>>), <<SearchWarning>>, <<>>, qv, ragv)
       ELSE /\ net' = <<SearchRequest(qv, topv)>>
            /\ ui' = <<>>
            /\ results' = PyNone
            /\ rag' = PyNone
            /\ aoaiReply' = NoReply
            /\ fault' = "none"
            /\ pc' = "search_wait"
    /\ UNCHANGED config
    /\ UNCHANGED <<planVars, promptVars>>

\* requests.post of azure_search ends with reply
SearchReplied(reply) ==
    /\ pc = "search_wait"
    /\ searchReply' = reply
    /\ SearchReturns(SearchTry(reply))
    /\ UNCHANGED <<config, q, top, do_rag>>
    /\ UNCHANGED <<planVars, promptVars>>

\* requests.post of aoai_chat ends with reply
AoaiReplied(reply) ==
    /\ pc = "aoai_wait"
    /\ aoaiReply' = reply
    /\ net' = Append(net, Received("aoai"))
    /\ AoaiReturns(AoaiTry(reply))
    /\ pc' = "idle"
    /\ UNCHANGED <<config, q, top, do_rag, results, searchReply>>
    /\ UNCHANGED <<planVars, promptVars>>

(***************************************************************************)
(* What the Search tab is given: widget values and replies                 *)
(***************************************************************************)
\* st.text_input; st.slider("Top N", 1, 20, 5); st.checkbox
Queries == {Bluey, <<"a", "\"", "b", " ", "c">>}
TopMin == 1
TopDefault == 5
Tops == {TopMin, TopDefault}

Doc1Text == <<"{", "\"", "i", "d", "\"", ":", " ", "\"", "1", "\"", ",", " ", "\"", "t", "i", "t",
              "l", "e", "\"", ":", " ", "\"", "K", "e", "e", "p", "y", " ", "U", "p", "p", "y",
              "\"", ",", " ", "\"", "s", "e", "r", "i", "e", "s", "\"", ":", " ", "\"", "B", "l",
              "u", "e", "y", "\"", ",", " ", "\"", "l", "e", "v", "e", "l", "\"", ":", " ", "\"",
              "A", "1", "\"", ",", " ", "\"", "c", "o", "n", "t", "e", "n", "t", "\"", ":", " ",
              "\"", "K", "e", "e", "p", " ", "i", "t", " ", "u", "p", "!", "\"", ",", " ", "\"",
              "p", "h", "r", "a", "s", "e", "s", "\"", ":", " ", "[", "\"", "m", "y", " ", "t",
              "u", "r", "n", "\"", ",", " ", "\"", "c", "a", "t", "c", "h", "\"", "]", "}">>
Doc2Text == <<"{", "\"", "i", "d", "\"", ":", " ", "\"", "2", "\"", "}">>

SearchBodies ==
    { <<"{", "\"", "v", "a", "l", "u", "e", "\"", ":", " ", "[">> \o Doc1Text \o <<"]", "}">>,
      <<"{", "\"", "v", "a", "l", "u", "e", "\"", ":", " ", "[">> \o Doc1Text \o <<",", " ">> \o Doc2Text \o <<"]", "}">>,
      <<"{", "\"", "v", "a", "l", "u", "e", "\"", ":", " ", "[", "]", "}">>,
      <<"{", "}">>,
      <<"[", "]">>,
      <<"{", "\"", "v", "a", "l", "u", "e", "\"", ":", " ", "\"", "a", "b", "c", "\"", "}">>,
      <<"{", "\"", "v", "a", "l", "u", "e", "\"", ":", " ", "5", "}">>,
      <<"{", "\"", "v", "a", "l", "u", "e", "\"", ":", " ", "n", "u", "l", "l", "}">>,
      <<"{", "\"", "v", "a", "l", "u", "e", "\"", ":", " ", "[", "5", "]", "}">>,
      <<"{", "\"", "v", "a", "l", "u", "e", "\"", ":", " ", "[", "{", "\"", "i", "d", "\"", ":",
        " ", "\"", "3", "\"", ",", " ", "\"", "c", "o", "n", "t", "e", "n", "t", "\"", ":", " ",
        "7", "}", "]", "}">>,
      <<"<", "h", "t", "m", "l", ">">> }

SearchReplies ==
    {Reply("connection_error", 0, <<>>), Reply("timeout", 0, <<>>)}
    \cup {Reply("response", s, <<"{", "\"", "v", "a", "l", "u", "e", "\"", ":", " ", "[">> \o Doc2Text \o <<"]", "}">>) : s \in {404, 500}}
    \cup {Reply("response", 200, b) : b \in SearchBodies}

\* the body of a chat completion whose message content is the text c
ChatBody(c) ==
    <<"{", "\"", "c", "h", "o", "i", "c", "e", "s", "\"", ":", " ", "[", "{", "\"", "m", "e", "s",
      "s", "a", "g", "e", "\"", ":", " ", "{", "\"", "r", "o", "l", "e", "\"", ":", " ", "\"", "a",
      "s", "s", "i", "s", "t", "a", "n", "t", "\"", ",", " ", "\"", "c", "o", "n", "t", "e", "n",
      "t", "\"", ":", " ">>
    \o py_encode_basestring(c) \o <<"}", "}", "]", "}">>

AoaiContents ==
    { <<"{", "\"", "s", "u", "m", "m", "a", "r", "y", "\"", ":", " ", "\"", "B", "l", "u", "e",
        "y", " ", "p", "l", "a", "y", "s", ".", "\"", ",", " ", "\"", "f", "o", "c", "u", "s", "_",
        "p", "h", "r", "a", "s", "e", "s", "\"", ":", " ", "[", "\"", "m", "y", " ", "t", "u", "r",
        "n", "\"", "]", ",", " ", "\"", "m", "i", "s", "s", "i", "o", "n", "s", "\"", ":", " ",
        "[", "\"", "f", "i", "n", "d", "\"", ",", " ", "\"", "s", "h", "a", "d", "o", "w", "\"",
        ",", " ", "\"", "u", "s", "e", "\"", "]", ",", " ", "\"", "p", "a", "r", "e", "n", "t",
        "_", "t", "i", "p", "s", "\"", ":", " ", "[", "\"", "p", "r", "a", "i", "s", "e", "\"",
        "]", "}">>,
      <<"{", "\"", "s", "u", "m", "m", "a", "r", "y", "\"", ":", " ", "\"", "B", "l", "u", "e",
        "y", " ", "p", "l", "a", "y", "s", ".", "\"", ",", " ", "\"", "f", "o", "c", "u", "s", "_",
        "p", "h", "r", "a", "s", "e", "s", "\"", ":", " ", "[", "\"", "m", "y", " ", "t", "u", "r",
        "n", "\"", "]", ",", " ", "\"", "p", "a", "r", "e", "n", "t", "_", "t", "i", "p", "s",
        "\"", ":", " ", "[", "\"", "p", "r", "a", "i", "s", "e", "\"", "]", "}">>,
      <<"{", "\"", "f", "o", "c", "u", "s", "_", "p", "h", "r", "a", "s", "e", "s", "\"", ":", " ",
        "[", "\"", "m", "y", " ", "t", "u", "r", "n", "\"", "]", ",", " ", "\"", "m", "i", "s",
        "s", "i", "o", "n", "s", "\"", ":", " ", "[", "\"", "f", "i", "n", "d", "\"", "]", ",",
        " ", "\"", "p", "a", "r", "e", "n", "t", "_", "t", "i", "p", "s", "\"", ":", " ", "[", "]",
        "}">>,
      <<"{", "\"", "s", "u", "m", "m", "a", "r", "y", "\"", ":", " ", "\"", "B", "l", "u", "e",
        "y", " ", "p", "l", "a", "y", "s", ".", "\"", ",", " ", "\"", "m", "i", "s", "s", "i", "o",
        "n", "s", "\"", ":", " ", "[", "\"", "f", "i", "n", "d", "\"", "]", "}">>,
      <<"{", "\"", "s", "u", "m", "m", "a", "r", "y", "\"", ":", " ", "\"", "s", "\"", ",", " ",
        "\"", "f", "o", "c", "u", "s", "_", "p", "h", "r", "a", "s", "e", "s", "\"", ":", " ", "[",
        "]", ",", " ", "\"", "m", "i", "s", "s", "i", "o", "n", "s", "\"", ":", " ", "3", ",", " ",
        "\"", "p", "a", "r", "e", "n", "t", "_", "t", "i", "p", "s", "\"", ":", " ", "[", "]", "}">>,
      <<"{", "}">>,
      <<"[", "1", "]">>,
      <<"5">>,
      <<"\"", "t", "e", "x", "t", "\"">>,
      <<"n", "u", "l", "l">>,
      <<"{", "\"", "s", "u", "m", "m", "a", "r", "y", "\"", ":", " ">> }

AoaiBodies ==
    {ChatBody(c) : c \in AoaiContents}
    \cup { <<"{", "}">>,
           <<"{", "\"", "c", "h", "o", "i", "c", "e", "s", "\"", ":", " ", "[", "]", "}">>,
           <<"{", "\"", "c", "h", "o", "i", "c", "e", "s", "\"", ":", " ", "[", "{", "\"", "m",
             "e", "s", "s", "a", "g", "e", "\"", ":", " ", "{", "\"", "c", "o", "n", "t", "e", "n",
             "t", "\"", ":", " ", "n", "u", "l", "l", "}", "}", "]", "}">>,
           <<"[", "]">>,
           <<"<", "h", "t", "m", "l", ">">> }

AoaiReplies ==
    {Reply("connection_error", 0, <<>>), Reply("timeout", 0, <<>>)}
    \cup {Reply("response", s, ChatBody(<<"{", "}">>)) : s \in {429, 500}}
    \cup {Reply("response", 200, b) : b \in AoaiBodies}

(***************************************************************************)
(* What build_rag_prompt is given                                          *)
(***************************************************************************)
MaxDocs == 2
LongExtra == 50

\* a text of n characters whose i-th character tells i modulo 10
LongText(n) == [i \in 1..n |-> Digits[(i % 10) + 1]]

PromptQueries == {Bluey, <<>>, <<"a", "\"", "b", "\\", "c", "\n", "U+D55C">>}

PromptDocs ==
    { PyDict(<< <<K_id, PyStr(<<"1">>)>>, <<K_title, PyStr(<<"K", "e", "e", "p", "y", " ", "U",
                                                             "p", "p", "y">>)>>,
                <<K_series, PyStr(Bluey)>>, <<K_level, PyStr(<<"A", "1">>)>>,
                <<K_content, PyStr(LongText(ContentLimit + LongExtra))>>,
                <<K_phrases, PyList(<<PyStr(<<"m", "y", " ", "t", "u", "r", "n">>), PyStr(<<"c", "a", "t", "c", "h">>)>>)>> >>),
      PyDict(<< <<K_id, PyStr(<<"2">>)>> >>),
      PyDict(<< <<K_id, PyStr(<<"3">>)>>, <<K_title, PyStr(<<>>)>>, <<K_content, PyNone>> >>),
      PyDict(<< <<K_id, PyStr(<<"4">>)>>, <<K_title, PyNone>>,
                <<K_content, PyStr(LongText(ContentLimit))>>, <<K_phrases, PyList(<<>>)>> >>),
      PyDict(<< <<K_id, PyStr(<<"5">>)>>, <<K_title, PyStr(<<"T", "\"", "5">>)>>,
                <<K_content, PyStr(<<"s", "a", "y", " ", "\"", "h", "i", "\"", "\n", "\\", "o", "/">>)>> >>),
      PyDict(<< <<K_id, PyStr(<<"6">>)>>,
                <<K_content, PyStr(LongText(ContentLimit + 1))>> >>) }

PromptDocLists == UNION {[1..n -> PromptDocs] : n \in 0..MaxDocs}

PromptArgSets == [query : PromptQueries, docs : PromptDocLists]

\* one call of build_rag_prompt on the drawn arguments
BuildPrompt ==
    /\ messages = PyNone
    /\ messages' = build_rag_prompt(promptArgs.query, promptArgs.docs)
    /\ UNCHANGED promptArgs
    /\ UNCHANGED <<searchVars, planVars>>

(***************************************************************************)
(* Specifications                                                          *)
(***************************************************************************)
FullConfig ==
    [SEARCH_ENDPOINT |-> "https://search.example", SEARCH_KEY |-> "search-key",
     SEARCH_INDEX |-> "kids", AOAI_ENDPOINT |-> "https://aoai.example",
     AOAI_KEY |-> "aoai-key", AOAI_DEPLOYMENT |-> "gpt"]

SearchInit(configs) ==
    /\ config \in configs
    /\ pc = "idle"
    /\ q = <<>>
    /\ top = TopDefault
    /\ do_rag = FALSE
    /\ net = <<>>
    /\ ui = <<>>
    /\ results = PyNone
    /\ rag = PyNone
    /\ fault = "none"
    /\ searchReply = NoReply
    /\ aoaiReply = NoReply

PromptInit ==
    /\ promptArgs = [query |-> <<>>, docs |-> <<>>]
    /\ messages = PyNone

\* the Search tab, under every combination of settings
Init == SearchInit(Configs) /\ PlanInit /\ PromptInit

Next ==
    \/ \E qv \in Queries, topv \in Tops, ragv \in BOOLEAN : PressSearch(qv, topv, ragv)
    \/ \E reply \in SearchReplies : SearchReplied(reply)
    \/ \E reply \in AoaiReplies : AoaiReplied(reply)

Spec == Init /\ [][Next]_vars

\* rule_based_plan on arguments of bounded sets
PlanSpecInit == SearchInit({FullConfig}) /\ PlanCallInit /\ PromptInit
PlanSpec == PlanSpecInit /\ [][CallPlan]_vars

\* rule_based_plan called again and again
RepeatInit == SearchInit({FullConfig}) /\ PlanInit /\ PromptInit
RepeatNext ==
    \E age \in RepAges, level \in RepLevels, character \in RepCharacters,
       sessions \in 1..RepMaxSessions, minutes \in RepMinutes :
        CallPlanAgain(age, level, character, sessions, minutes)

RepeatSpec == RepeatInit /\ [][RepeatNext]_vars

\* the Plan tab with the values its widgets offer
PlanTabNext ==
    \/ \E age \in UiAges : SetAge(age)
    \/ \E level \in UiLevels : SetLevel(level)
    \/ \E character \in UiCharacters : SetCharacter(character)
    \/ \E sessions \in UiSessions : SetSessions(sessions)
    \/ \E minutes \in UiMinutes : SetMinutes(minutes)
    \/ PressPlan

PlanTabSpec == RepeatInit /\ [][PlanTabNext]_vars

\* build_rag_prompt on queries and documents of bounded sets
PromptSpecInit ==
    /\ SearchInit({FullConfig})
    /\ PlanInit
    /\ promptArgs \in PromptArgSets
    /\ messages = PyNone

PromptSpec == PromptSpecInit /\ [][BuildPrompt]_vars

(***************************************************************************)
(* Properties                                                              *)
(***************************************************************************)
PlanActs == DictGet(plan, K_activities, PyNone).v
ActDay(i) == DictGet(PlanActs[i], K_day, PyNone)
ActType(i) == DictGet(PlanActs[i], K_type, PyNone)
ActPhrases(i) == DictGet(PlanActs[i], K_focus_phrases, PyNone)
ActMissions(i) == DictGet(PlanActs[i], K_missions, PyNone)

WeekCycle == <<<<"M", "o", "n">>, <<"T", "u", "e">>, <<"W", "e", "d">>, <<"T", "h", "u">>, <<"F", "r", "i">>, <<"S", "a", "t">>, <<"S", "u", "n">>>>
\* listening, speaking, reading, writing
SkillCycle == <<<<"U+B4E3", "U+AE30">>, <<"U+B9D0", "U+D558", "U+AE30">>, <<"U+C77D", "U+AE30">>, <<"U+C4F0", "U+AE30">>>>

(* C1: for sessionsPerWeek n in 1..14 the plan of rule_based_plan holds exactly n
   activities, activity i (from 0) has the day at place i mod 7 of Mon..Sun and the
   type at place i mod 4 of listening, speaking, reading, writing; with n = 9 the
   eighth activity has the day of the first and the fifth the type of the first. *)
C1_PlanFollowsCycles ==
    plan.t = "dict" =>
        /\ Len(PlanActs) = planArgs.sessions
        /\ \A i \in 0..(planArgs.sessions - 1) :
              /\ ActDay(i + 1) = PyStr(WeekCycle[(i % 7) + 1])
              /\ ActType(i + 1) = PyStr(SkillCycle[(i % 4) + 1])
        /\ planArgs.sessions = 9 => /\ ActDay(8) = ActDay(1)
                                    /\ ActType(5) = ActType(1)

C1_NineSessionsPlanned ==
    /\ plan.t = "dict"
    /\ planArgs.sessions = 9
    /\ Len(PlanActs) = 9
    /\ ActDay(8) = PyStr(<<"M", "o", "n">>)
    /\ ActDay(9) = PyStr(<<"T", "u", "e">>)

KnownLevels == {<<"A", "0">>, <<"A", "1">>, <<"A", "2">>, <<"B", "1">>}
ResolvedLevel(level) == IF level \in KnownLevels THEN level ELSE <<"A", "1">>
A1Phrases == PyList(<<PyStr(<<"C", "a", "n", " ", "I", " ", ".", ".", ".", "?">>), PyStr(<<"I", " ", "w", "a", "n", "t", " ", ".", ".",
                                                       ".">>), PyStr(<<"I", "t", "'", "s",
                                                                                " ", "m", "y", " ",
                                                                                "t", "u", "r", "n",
                                                                                ".">>)>>)

(* C2: every activity of a plan has as focus_phrases the three phrases of the bank
   for the resolved level, which is the level given if that is A0, A1, A2 or B1 and
   A1 for any other text; all activities of a plan have the same focus_phrases and
   the same fixed three missions. *)
C2_PhrasesOfResolvedLevel ==
    plan.t = "dict" =>
        \A i \in 1..Len(PlanActs) :
            /\ ActPhrases(i) = DictGet(focus_bank, ResolvedLevel(planArgs.level), PyNone)
            /\ ResolvedLevel(planArgs.level) = <<"A", "1">> => ActPhrases(i) = A1Phrases
            /\ Len(ActPhrases(i).v) = 3
            /\ ActPhrases(i) = ActPhrases(1)
            /\ ActMissions(i) = plan_missions
            /\ Len(ActMissions(i).v) = 3

C2_UnknownLevelPlanned ==
    /\ plan.t = "dict"
    /\ planArgs.level = <<"Z", "Z">>
    /\ planArgs.sessions = 2
    /\ ActPhrases(2) = A1Phrases

IncompleteSearchConfig ==
    config.SEARCH_ENDPOINT = "" \/ config.SEARCH_KEY = "" \/ config.SEARCH_INDEX = ""
IncompleteAoaiConfig ==
    config.AOAI_ENDPOINT = "" \/ config.AOAI_KEY = "" \/ config.AOAI_DEPLOYMENT = ""

Requests(svc) == {i \in 1..Len(net) : net[i].ev = "request" /\ net[i].svc = svc}
IsShown(el) == \E i \in 1..Len(ui) : ui[i] = el
ShownOfKind(kind) == {i \in 1..Len(ui) : ui[i].kind = kind}

(* C3: with the endpoint, the key or the index name of the catalog empty, azure_search
   returns an empty sequence, shows the warning of the missing settings, sends no
   request and raises nothing the script does not recover from. *)
C3_IncompleteConfigGivesEmpty ==
    IncompleteSearchConfig =>
        /\ Requests("search") = {}
        /\ fault = "none"
        /\ pc = "idle"
        /\ results.t # "none" => /\ results = PyList(<<>>)
                                 /\ ui[1] = SearchWarning

C3_PressedWithoutIndex ==
    /\ config.SEARCH_ENDPOINT # ""
    /\ config.SEARCH_KEY # ""
    /\ config.SEARCH_INDEX = ""
    /\ results = PyList(<<>>)
    /\ ui = <<SearchWarning, NoResultsInfo>>
    /\ net = <<>>

NotTheExpectedBody(body) ==
    \/ ~body.ok
    \/ body.val.t # "dict"
    \/ ~DictHas(body.val, K_value)
    \/ DictGet(body.val, K_value, PyNone).t # "list"

\* network error, timeout, a status that is not 2xx, a malformed body
FailingReply(reply) ==
    \/ reply.kind \in {"connection_error", "timeout"}
    \/ reply.kind = "response" /\ (reply.status < 200 \/ reply.status >= 300)
    \/ reply.kind = "response" /\ NotTheExpectedBody(json_loads(reply.body))

(* C4: with the catalog settings complete one call of azure_search sends exactly one
   request, and for every failing outcome of it (network error, timeout, a status
   that is not 2xx, a body that is not JSON, not an object, or whose value is absent
   or not a list) it reports the failure and returns an empty sequence. *)
C4_FailedSearchGivesEmpty ==
    searchReply.kind # "none" =>
        /\ Cardinality(Requests("search")) = 1
        /\ FailingReply(searchReply) => /\ results = PyList(<<>>)
                                        /\ IsShown(SearchError)

\* the content of the first choice's message, parsed: [ok, val]
ReplyContent(reply) == AoaiData(json_loads(reply.body))

FailingEnrichment(reply) ==
    \/ reply.kind \in {"connection_error", "timeout"}
    \/ reply.kind = "response" /\ (reply.status < 200 \/ reply.status >= 300)
    \/ reply.kind = "response" /\ ~ReplyContent(reply).ok
    \/ reply.kind = "response" /\ ReplyContent(reply).val.t # "dict"

(* C5: when the enrichment call fails, times out, or the message content is not
   valid JSON of the expected shape (a JSON object), aoai_chat returns nothing, the
   handler shows the failure and ends the search action without enrichment, and no
   exception ends the script run. *)
C5_FailedEnrichmentGivesNothing ==
    (aoaiReply.kind # "none" /\ FailingEnrichment(aoaiReply)) =>
        /\ rag = PyNone
        /\ IsShown(AoaiError)
        /\ fault = "none"
        /\ ShownOfKind("download") = {}

ResultKeys == {K_summary, K_focus_phrases, K_missions, K_parent_tips}
EmptyFor(key) == IF key = K_summary THEN PyStr(<<>>) ELSE PyList(<<>>)

\* the export holds every key: the reply's value where it gave one, else the empty one
ExportedWhole(content, export) ==
    /\ export.ok
    /\ export.val.t = "dict"
    /\ \A key \in ResultKeys :
          /\ DictHas(export.val, key)
          /\ DictGet(export.val, key, PyNone) = DictGet(content, key, EmptyFor(key))

LacksAKey(reply) ==
    /\ reply.kind = "response"
    /\ reply.status = 200
    /\ ReplyContent(reply).ok
    /\ ReplyContent(reply).val.t = "dict"
    /\ \E key \in ResultKeys : ~DictHas(ReplyContent(reply).val, key)
    /\ \A key \in ResultKeys \ {K_summary} :
          DictGet(ReplyContent(reply).val, key, PyList(<<>>)).t = "list"

(* C6: when the generation backend returns a JSON object that lacks one of the four
   keys (missions in particular), the result shown and the result exported as JSON
   have the empty sequence (the empty string for summary) for the absent key, the
   keys present are kept, and the call does not fail. *)
C6_AbsentKeysExportedEmpty ==
    LacksAKey(aoaiReply) =>
        /\ fault = "none"
        /\ ~IsShown(AoaiError)
        /\ IsShown(UiEl("summary", DictGet(ReplyContent(aoaiReply).val, K_summary, PyStr(<<>>))))
        /\ Cardinality(ShownOfKind("mission"))
              = Len(DictGet(ReplyContent(aoaiReply).val, K_missions, PyList(<<>>)).v)
        /\ ShownOfKind("download") # {}
        /\ \A i \in ShownOfKind("download") :
              ExportedWhole(ReplyContent(aoaiReply).val, json_loads(ui[i].data.v))

PromptUserOf(msgs) == json_loads(DictGet(msgs.v[2], K_content, PyNone).v)

\* entry is the docs entry the prompt holds for the document d
EntryMatches(entry, d) ==
    /\ DictGet(entry, K_content, PyNone).t = "str"
    /\ IF DictHas(d, K_content) /\ DictGet(d, K_content, PyNone).t = "str"
       THEN /\ Len(DictGet(entry, K_content, PyNone).v)
                  = IF Len(DictGet(d, K_content, PyNone).v) < 600
                    THEN Len(DictGet(d, K_content, PyNone).v) ELSE 600
            /\ \A j \in 1..Len(DictGet(entry, K_content, PyNone).v) :
                  DictGet(entry, K_content, PyNone).v[j] = DictGet(d, K_content, PyNone).v[j]
       ELSE DictGet(entry, K_content, PyNone) = PyStr(<<>>)
    /\ IF DictHas(d, K_title) /\ DictGet(d, K_title, PyNone).t = "str"
          /\ Len(DictGet(d, K_title, PyNone).v) > 0
       THEN DictGet(entry, K_title, PyNone) = DictGet(d, K_title, PyNone)
       ELSE DictGet(entry, K_title, PyNone) = DictGet(d, K_id, PyNone)
    /\ IF DictHas(d, K_phrases)
       THEN DictGet(entry, K_phrases, PyNone) = DictGet(d, K_phrases, PyNone)
       ELSE DictGet(entry, K_phrases, PyNone) = PyList(<<>>)

PromptCarries(user, query, docs) ==
    /\ user.ok
    /\ DictGet(user.val, K_query, PyNone) = PyStr(query)
    /\ DictGet(user.val, K_docs, PyNone).t = "list"
    /\ Len(DictGet(user.val, K_docs, PyNone).v) = Len(docs)
    /\ \A k \in 1..Len(docs) : EntryMatches(DictGet(user.val, K_docs, PyNone).v[k], docs[k])

(* C7: build_rag_prompt gives one system message followed by one user message; the
   user message carries the query unchanged and a docs list with one entry per
   document given, in the same order, entry k holding the first min(600, length)
   characters of the content of document k (empty when it is missing or null), its
   title when that is not empty and else its id, and its phrases, empty when missing. *)
C7_PromptCarriesQueryAndDocs ==
    messages.t = "list" =>
        /\ Len(messages.v) = 2
        /\ DictGet(messages.v[1], K_role, PyNone) = PyStr(<<"s", "y", "s", "t", "e", "m">>)
        /\ DictGet(messages.v[1], K_content, PyNone) = PyStr(SystemText)
        /\ DictGet(messages.v[2], K_role, PyNone) = PyStr(<<"u", "s", "e", "r">>)
        /\ DictGet(messages.v[2], K_content, PyNone).t = "str"
        /\ PromptCarries(PromptUserOf(messages), promptArgs.query, promptArgs.docs)

C7_LongAndBareDocsPrompted ==
    /\ messages.t = "list"
    /\ Len(promptArgs.docs) = 2
    /\ Len(DictGet(promptArgs.docs[1], K_content, PyStr(<<>>)).v) > 600
    /\ ~DictHas(promptArgs.docs[2], K_title)
    /\ Len(promptArgs.query) > 0
    /\ PromptCarries(PromptUserOf(messages), promptArgs.query, promptArgs.docs)

\* the names of the fields of a dict, in order
FieldNames(d) == [i \in 1..Len(d.v) |-> d.v[i][1]]

RoundTrips(p, back) ==
    /\ back.ok
    /\ back.val = p
    /\ FieldNames(back.val) = <<K_weekly_goals, K_activities, K_time_per_day>>
    /\ \A i \in 1..Len(DictGet(p, K_activities, PyNone).v) :
          FieldNames(DictGet(back.val, K_activities, PyNone).v[i])
              = <<K_day, K_type, K_item, K_focus_phrases, K_missions>>

(* C8: the JSON text the Plan tab offers for download, parsed back, is the plan of
   rule_based_plan again: the fields weekly_goals, activities, time_per_day with equal
   values, the activities in the same order with equal day, type, item, focus_phrases
   and missions. *)
C8_PlanExportRoundTrips ==
    plan.t = "dict" => RoundTrips(plan, json_loads(PlanDownload))

C8_FullWeekExported ==
    /\ plan.t = "dict"
    /\ planArgs.sessions = 7
    /\ planArgs.character = DisneyPixar
    /\ Len(PlanActs) = 7
    /\ planUi[Len(planUi)].kind = "download"
    /\ json_loads(PlanDownload).ok

SameButAge(a, b) ==
    /\ a.level = b.level
    /\ a.character = b.character
    /\ a.sessions = b.sessions
    /\ a.minutes = b.minutes

(* C9: rule_based_plan is a function of level, character, sessionsPerWeek and
   minutesPerSession alone: a call returns what the call before it returned whenever
   the two differ in nothing or only in age, whatever was called earlier, and
   time_per_day is the minutesPerSession given. *)
C9_PlanIgnoresAgeAndHistory ==
    /\ plan.t = "dict" => DictGet(plan, K_time_per_day, PyNone) = PyInt(planArgs.minutes)
    /\ (plan.t = "dict" /\ prevPlan.t = "dict" /\ SameButAge(planArgs, prevArgs))
          => plan = prevPlan

C9_SameCallAtAnotherAge ==
    /\ plan.t = "dict"
    /\ prevPlan.t = "dict"
    /\ SameButAge(planArgs, prevArgs)
    /\ planArgs.age # prevArgs.age
    /\ plan = prevPlan

Received200WithList ==
    /\ searchReply.kind = "response"
    /\ searchReply.status = 200
    /\ json_loads(searchReply.body).ok
    /\ json_loads(searchReply.body).val.t = "dict"
    /\ DictGet(json_loads(searchReply.body).val, K_value, PyNone).t = "list"

(* C10: within one press of the search button at most one catalog request and at
   most one generation request are sent; the generation request is sent only after
   the catalog request has completed, and only if enrichment was asked for, the
   generation settings are complete and the search returned at least one result; a
   failed or empty search (missing catalog settings included) leads to no generation
   request, and missing generation settings do not keep the search results from
   being returned. *)
C10_OneSearchThenOneEnrichment ==
    /\ Cardinality(Requests("search")) <= 1
    /\ Cardinality(Requests("aoai")) <= 1
    /\ \A i \in Requests("aoai") :
          /\ i = 3
          /\ net[1].ev = "request" /\ net[1].svc = "search"
          /\ net[2].ev = "reply" /\ net[2].svc = "search"
    /\ Requests("aoai") # {} =>
          /\ do_rag
          /\ ~IncompleteAoaiConfig
          /\ results.t = "list"
          /\ Len(results.v) >= 1
    /\ (IncompleteSearchConfig \/ IsShown(SearchError) \/ results = PyList(<<>>))
          => Requests("aoai") = {}
    /\ (IncompleteAoaiConfig /\ Received200WithList)
          => results = DictGet(json_loads(searchReply.body).val, K_value, PyNone)

C10_SearchedThenEnriched ==
    /\ Len(net) = 4
    /\ net[3].ev = "request"
    /\ net[3].svc = "aoai"
    /\ net[4].ev = "reply"
    /\ rag.t = "dict"
    /\ Len(results.v) = 2

====
